---- MODULE Spec2Model ----
(***************************************************************************)
(* Model of the RobotTracking widget of the HexaphobUS user interface      *)
(* (Code/hexaphobus_ui/hexaphobus_ui.py) and of the button connexions of   *)
(* MainWindow that drive it.                                               *)
(*                                                                         *)
(* The widget holds the robot position, the target (origin) position and   *)
(* a field _distance_origin; its QLabel is the textual readout and the     *)
(* painter output is the line last drawn.  Handlers run to completion on   *)
(* the Qt event loop; update() only schedules a paint event, which is a    *)
(* later step of its own.                                                  *)
(***************************************************************************)
EXTENDS Integers, Sequences, FiniteSets

VARIABLES
    distance_origin,  \* self._distance_origin
    robot_x_pos,      \* self._robot_x_pos
    robot_y_pos,      \* self._robot_y_pos
    target_x_pos,     \* self._target_x_pos
    target_y_pos,     \* self._target_y_pos
    label,            \* text of self.label: <<>> (empty) or <<x, y, distance>>
    pending,          \* a paint event requested by show()/update() is outstanding
    line,             \* the line last drawn by paintEvent: <<>> or <<x1, y1, x2, y2>>
    raised,           \* the exception the last handler ended with ("none": returned)
    history,          \* the handler calls made since construction, oldest first
    clicks            \* the number of handler calls made in this exploration

vars == <<distance_origin, robot_x_pos, robot_y_pos, target_x_pos, target_y_pos,
          label, pending, line, raised, history, clicks>>

\* ------------------------------------------------------------------ bounds

\* Handler calls explored after the initial state.
MaxClicks == 4

\* Length of the straight run of LEFT clicks that precedes the exploration
\* of SpecFar (the robot then stands on the left edge of the view, x = 0).
FarRun == 20

\* ------------------------------------------------------------- vocabulary

\* The four literals the arrow buttons pass to changePosition.
Directions == {"UP", "DOWN", "RIGHT", "LEFT"}

\* Arguments that a direct call of changePosition may carry: the four
\* literals and strings that are none of them.
OtherArgs == {"up", "STOP"}

Args == Directions \cup OtherArgs

\* ------------------------------------------------------------ pure parts

\* round(n ** 0.5) for a natural n: the integer nearest to the square root
\* (the root of an integer is never half-way between two integers).
RoundSqrt(n) ==
    CHOOSE r \in 0..n : 4 * n < (2 * r + 1) * (2 * r + 1)
                        /\ (r > 0 => (2 * r - 1) * (2 * r - 1) < 4 * n)

\* Variant of moveRobotDistance: int() in place of round().
moveRobotDistanceFloor(robotX, robotY, targetX, targetY) ==
    LET n == (robotY - targetY) * (robotY - targetY)
             + (robotX - targetX) * (robotX - targetX)
    IN  CHOOSE r \in 0..n : r * r <= n /\ n < (r + 1) * (r + 1)

\* The local _distance_origin of moveRobot.
moveRobotDistance(robotX, robotY, targetX, targetY) ==
    RoundSqrt((robotY - targetY) * (robotY - targetY)
              + (robotX - targetX) * (robotX - targetX))

\* The text moveRobot puts in the label.
moveRobotText(robotX, robotY, targetX, targetY) ==
    <<robotX, robotY, moveRobotDistance(robotX, robotY, targetX, targetY)>>

\* Variant of changePositionXY: the last branch is an else.
changePositionElse(x, y, direction) ==
    IF direction = "UP" THEN <<x, y - 10>>
    ELSE IF direction = "DOWN" THEN <<x, y + 10>>
    ELSE IF direction = "RIGHT" THEN <<x + 10, y>>
    ELSE <<x - 10, y>>

\* Variant of changePositionXY: the position is kept inside the view.
changePositionClamped(x, y, direction) ==
    IF direction = "UP" THEN <<x, IF y - 10 < 0 THEN 0 ELSE y - 10>>
    ELSE IF direction = "DOWN" THEN <<x, y + 10>>
    ELSE IF direction = "RIGHT" THEN <<x + 10, y>>
    ELSE IF direction = "LEFT" THEN <<IF x - 10 < 0 THEN 0 ELSE x - 10, y>>
    ELSE <<x, y>>

\* Variant of changePositionXY: y grows upward.
changePositionSwapped(x, y, direction) ==
    IF direction = "UP" THEN <<x, y + 10>>
    ELSE IF direction = "DOWN" THEN <<x, y - 10>>
    ELSE IF direction = "RIGHT" THEN <<x + 10, y>>
    ELSE IF direction = "LEFT" THEN <<x - 10, y>>
    ELSE <<x, y>>

\* The if/elif chain of changePosition: the new <<x, y>>.
changePositionXY(x, y, direction) ==
    IF direction = "UP" THEN <<x, y - 10>>
    ELSE IF direction = "DOWN" THEN <<x, y + 10>>
    ELSE IF direction = "RIGHT" THEN <<x + 10, y>>
    ELSE IF direction = "LEFT" THEN <<x - 10, y>>
    ELSE <<x, y>>

\* ------------------------------------------------------------- handlers

Call(op, arg) == [op |-> op, arg |-> arg]

\* changePosition(direction): the chain, then moveRobot on the new
\* position (label text, update()), then update().
changePosition(direction) ==
    /\ clicks < MaxClicks
    /\ LET p == changePositionXY(robot_x_pos, robot_y_pos, direction)
       IN  /\ robot_x_pos' = p[1]
           /\ robot_y_pos' = p[2]
           /\ label' = moveRobotText(p[1], p[2], target_x_pos, target_y_pos)
    /\ pending' = TRUE
    /\ raised' = "none"
    /\ history' = Append(history, Call("changePosition", direction))
    /\ clicks' = clicks + 1
    /\ UNCHANGED <<distance_origin, target_x_pos, target_y_pos, line>>

\* Variant of initPosition: position and target are exchanged.
initPositionExchange ==
    /\ clicks < MaxClicks
    /\ target_x_pos' = robot_x_pos
    /\ target_y_pos' = robot_y_pos
    /\ robot_x_pos' = target_x_pos
    /\ robot_y_pos' = target_y_pos
    /\ pending' = TRUE
    /\ raised' = "none"
    /\ history' = Append(history, Call("initPosition", ""))
    /\ clicks' = clicks + 1
    /\ UNCHANGED <<distance_origin, label, line>>

\* Variant of initPosition: only the x coordinate is copied.
initPositionXOnly ==
    /\ clicks < MaxClicks
    /\ target_x_pos' = robot_x_pos
    /\ pending' = TRUE
    /\ raised' = "none"
    /\ history' = Append(history, Call("initPosition", ""))
    /\ clicks' = clicks + 1
    /\ UNCHANGED <<distance_origin, robot_x_pos, robot_y_pos, target_y_pos,
                   label, line>>

\* Variant of initPosition: += in place of =.
initPositionAccumulate ==
    /\ clicks < MaxClicks
    /\ target_x_pos' = target_x_pos + robot_x_pos
    /\ target_y_pos' = target_y_pos + robot_y_pos
    /\ pending' = TRUE
    /\ raised' = "none"
    /\ history' = Append(history, Call("initPosition", ""))
    /\ clicks' = clicks + 1
    /\ UNCHANGED <<distance_origin, robot_x_pos, robot_y_pos, label, line>>

\* initPosition(): the target takes the robot position, then update().
initPosition ==
    /\ clicks < MaxClicks
    /\ target_x_pos' = robot_x_pos
    /\ target_y_pos' = robot_y_pos
    /\ pending' = TRUE
    /\ raised' = "none"
    /\ history' = Append(history, Call("initPosition", ""))
    /\ clicks' = clicks + 1
    /\ UNCHANGED <<distance_origin, robot_x_pos, robot_y_pos, label, line>>

\* paintEvent(event): draws the line from the robot to the target.  Qt
\* delivers it for an outstanding update() and for any expose of the window.
paintEvent ==
    /\ line' = <<robot_x_pos, robot_y_pos, target_x_pos, target_y_pos>>
    /\ pending' = FALSE
    /\ UNCHANGED <<distance_origin, robot_x_pos, robot_y_pos, target_x_pos,
                   target_y_pos, label, raised, history, clicks>>

\* Variant of timeout: a slot that animates the robot is connected.
timeoutAnimates ==
    /\ robot_x_pos < 300
    /\ robot_x_pos' = robot_x_pos + 1
    /\ pending' = TRUE
    /\ UNCHANGED <<distance_origin, robot_y_pos, target_x_pos, target_y_pos,
                   label, line, raised, history, clicks>>

\* The timeout of self.timer: no slot is connected to it.
timeout ==
    UNCHANGED vars

\* The connexions of MainWindow.setConnexions.
button_init == initPosition
button_up == changePosition("UP")
button_down == changePosition("DOWN")
button_right == changePosition("RIGHT")
button_left == changePosition("LEFT")

\* ------------------------------------------------------- specifications

\* RobotTracking.__init__ and initTracking: show() requests the first paint.
Init ==
    /\ distance_origin = 0
    /\ robot_x_pos = 200
    /\ robot_y_pos = 200
    /\ target_x_pos = 250
    /\ target_y_pos = 250
    /\ label = <<>>
    /\ pending = TRUE
    /\ line = <<>>
    /\ raised = "none"
    /\ history = <<>>
    /\ clicks = 0

Next ==
    \/ button_init
    \/ button_up
    \/ button_down
    \/ button_right
    \/ button_left
    \/ paintEvent
    \/ timeout

\* The user interface: the five connected buttons, repaints and the timer.
Spec == Init /\ [][Next]_vars

\* The widget's methods called directly, changePosition with any argument.
NextCall ==
    \/ \E direction \in Args : changePosition(direction)
    \/ initPosition
    \/ paintEvent
    \/ timeout

SpecCall == Init /\ [][NextCall]_vars

\* The state the interface is in after FarRun clicks on the LEFT button, each
\* one painted: the start of the exploration near the edge of the view.
RECURSIVE RunLeft(_, _)
RunLeft(p, k) ==
    IF k = 0 THEN p ELSE RunLeft(changePositionXY(p[1], p[2], "LEFT"), k - 1)

InitFar ==
    LET p == RunLeft(<<200, 200>>, FarRun)
    IN  /\ distance_origin = 0
        /\ robot_x_pos = p[1]
        /\ robot_y_pos = p[2]
        /\ target_x_pos = 250
        /\ target_y_pos = 250
        /\ label = moveRobotText(p[1], p[2], 250, 250)
        /\ pending = FALSE
        /\ line = <<p[1], p[2], 250, 250>>
        /\ raised = "none"
        /\ history = [i \in 1..FarRun |-> Call("changePosition", "LEFT")]
        /\ clicks = 0

SpecFar == InitFar /\ [][Next]_vars

\* ---------------------------------------------------- terms of the claims

Last(s) == s[Len(s)]

\* The step is a call of the handler op with argument arg.
IsCall(op, arg) == history' = Append(history, Call(op, arg))

IsMove(d) == IsCall("changePosition", d)

IsInit == IsCall("initPosition", "")

\* The number of changePosition(d) calls since construction.
Count(d) ==
    Cardinality({i \in 1..Len(history) : history[i] = Call("changePosition", d)})

\* The squared distance between the robot and the target.
SquaredDistance ==
    (robot_x_pos - target_x_pos) * (robot_x_pos - target_x_pos)
    + (robot_y_pos - target_y_pos) * (robot_y_pos - target_y_pos)

\* d is the integer nearest to the square root of n.
IsRounded(d, n) ==
    /\ d \in Nat
    /\ 4 * n < (2 * d + 1) * (2 * d + 1)
    /\ (d > 0 => (2 * d - 1) * (2 * d - 1) < 4 * n)

\* The readout shows the current position and the current distance.
ReadoutCurrent ==
    /\ Len(label) = 3
    /\ label[1] = robot_x_pos
    /\ label[2] = robot_y_pos
    /\ IsRounded(label[3], SquaredDistance)

Moved == \E i \in 1..Len(history) : history[i].op = "changePosition"

Inited == \E i \in 1..Len(history) : history[i].op = "initPosition"

\* ------------------------------------------------------------------ claims

\* C1: one changePosition(D), D in {UP, DOWN, LEFT, RIGHT}, changes exactly
\* one coordinate of the position by exactly 10 and leaves the other alone:
\* UP gives y-10, DOWN gives y+10, LEFT gives x-10, RIGHT gives x+10.
C1_MoveChangesOneAxisByTen ==
    [][/\ IsMove("UP") =>
            robot_x_pos' = robot_x_pos /\ robot_y_pos' = robot_y_pos - 10
       /\ IsMove("DOWN") =>
            robot_x_pos' = robot_x_pos /\ robot_y_pos' = robot_y_pos + 10
       /\ IsMove("LEFT") =>
            robot_x_pos' = robot_x_pos - 10 /\ robot_y_pos' = robot_y_pos
       /\ IsMove("RIGHT") =>
            robot_x_pos' = robot_x_pos + 10 /\ robot_y_pos' = robot_y_pos
      ]_vars

\* UP then RIGHT from (200,200) has led to (210,190).
C1_Witness ==
    /\ history = <<Call("changePosition", "UP"), Call("changePosition", "RIGHT")>>
    /\ robot_x_pos = 210
    /\ robot_y_pos = 190

\* C2 (as stated): a changePosition call whose direction is none of UP,
\* DOWN, LEFT, RIGHT ends with an InvalidArgument error.
C2_InvalidDirectionRaises ==
    (history # <<>> /\ Last(history).op = "changePosition"
        /\ Last(history).arg \notin Directions)
    => raised = "InvalidArgument"

\* C2 (amended): a changePosition call whose direction is none of UP, DOWN,
\* LEFT, RIGHT returns normally, leaves the position and the target
\* unchanged and refreshes the readout for the unchanged position.
C2_InvalidDirectionIgnored ==
    [][\A d \in OtherArgs : IsMove(d) =>
            /\ raised' = "none"
            /\ UNCHANGED <<robot_x_pos, robot_y_pos, target_x_pos, target_y_pos>>
            /\ ReadoutCurrent'
      ]_vars

\* A call with an argument outside the set has returned, after a move and a
\* set-origin that left the readout behind.
C2_Witness ==
    /\ Len(history) = 3
    /\ history[1] = Call("changePosition", "DOWN")
    /\ history[2].op = "initPosition"
    /\ history[3] = Call("changePosition", "STOP")
    /\ robot_y_pos = 210
    /\ label = <<200, 210, 0>>

\* C3: right after initPosition the target equals the position, and the
\* distance between them is exactly 0.
C3_InitGivesZeroDistance ==
    (history # <<>> /\ Last(history).op = "initPosition")
    => /\ target_x_pos = robot_x_pos
       /\ target_y_pos = robot_y_pos
       /\ SquaredDistance = 0
       /\ moveRobotDistance(robot_x_pos, robot_y_pos, target_x_pos, target_y_pos) = 0

\* Set-origin at (210,190): the target is (210,190).
C3_Witness ==
    /\ history # <<>>
    /\ Last(history).op = "initPosition"
    /\ robot_x_pos = 210 /\ robot_y_pos = 190
    /\ target_x_pos = 210 /\ target_y_pos = 190

\* C4: changePosition never changes the target and initPosition never
\* changes the position; the position changes only in a changePosition
\* step and the target only in an initPosition step.
C4_Frames ==
    [][/\ (\E d \in Args : IsMove(d)) => UNCHANGED <<target_x_pos, target_y_pos>>
       /\ IsInit => UNCHANGED <<robot_x_pos, robot_y_pos>>
       /\ <<robot_x_pos, robot_y_pos>>' # <<robot_x_pos, robot_y_pos>>
            => \E d \in Directions : IsMove(d)
       /\ <<target_x_pos, target_y_pos>>' # <<target_x_pos, target_y_pos>>
            => IsInit
      ]_vars

\* Both mutators have acted and have left position and target apart.
C4_Witness ==
    /\ Moved /\ Inited
    /\ <<target_x_pos, target_y_pos>> # <<250, 250>>
    /\ <<robot_x_pos, robot_y_pos>> # <<target_x_pos, target_y_pos>>
    /\ Last(history).op = "changePosition"

\* C5: after a directional button click the readout shows the new position
\* and the distance (to the nearest integer, as the label prints it) between
\* the new position and the current target.
C5_ReadoutAfterMove ==
    (history # <<>> /\ Last(history).op = "changePosition") => ReadoutCurrent

\* A second click has run, at a distance that is no whole number and is
\* shown rounded up.
C5_Witness ==
    /\ Len(history) >= 2 /\ Last(history).op = "changePosition"
    /\ <<robot_x_pos, robot_y_pos>> # <<200, 200>>
    /\ Len(label) = 3
    /\ label[3] * label[3] > SquaredDistance

\* C6: any distance the widget stores is the distance between the current
\* position and the current target (here: up to the widget's rounding).
C6_StoredDistanceCurrent ==
    IsRounded(distance_origin, SquaredDistance)

\* C7: initPosition right after initPosition leaves position and target as
\* the first call left them.
C7_InitIdempotent ==
    [][(history # <<>> /\ Last(history).op = "initPosition" /\ IsInit)
        => UNCHANGED <<robot_x_pos, robot_y_pos, target_x_pos, target_y_pos>>
      ]_vars

\* Two set-origin clicks in a row, after a move.
C7_Witness ==
    /\ Len(history) >= 3
    /\ history[Len(history)].op = "initPosition"
    /\ history[Len(history) - 1].op = "initPosition"
    /\ Moved
    /\ <<target_x_pos, target_y_pos>> = <<robot_x_pos, robot_y_pos>>
    /\ <<robot_x_pos, robot_y_pos>> # <<200, 200>>

\* C8: a step that is no handler call (a repaint or a timer tick) changes
\* neither position nor target, and a line that is drawn goes from the
\* current position to the current target.
C8_PaintAndTimerReadOnly ==
    [][/\ history' = history
            => UNCHANGED <<robot_x_pos, robot_y_pos, target_x_pos, target_y_pos>>
       /\ (line' # line \/ ~pending')
            => line' = <<robot_x_pos, robot_y_pos, target_x_pos, target_y_pos>>'
      ]_vars

\* A repaint after a move and a set-origin and another move.
C8_Witness ==
    /\ ~pending
    /\ Moved /\ Inited
    /\ <<robot_x_pos, robot_y_pos>> # <<target_x_pos, target_y_pos>>
    /\ <<target_x_pos, target_y_pos>> # <<250, 250>>
    /\ line = <<robot_x_pos, robot_y_pos, target_x_pos, target_y_pos>>

\* C9: once a directional command has run, the readout always shows the
\* current position and the distance between the current position and the
\* current target, also right after a set-origin click.
C9_ReadoutAlwaysCurrent ==
    Moved => ReadoutCurrent

\* C10: the position is (200 + 10*(#RIGHT - #LEFT), 200 + 10*(#DOWN - #UP))
\* whatever the order of the commands and the number of set-origin clicks,
\* with no clamping at the edge of the view.
C10_PositionIsNetCount ==
    /\ robot_x_pos = 200 + 10 * (Count("RIGHT") - Count("LEFT"))
    /\ robot_y_pos = 200 + 10 * (Count("DOWN") - Count("UP"))

\* Past the left edge of the view, after a RIGHT and a set-origin click.
C10_Witness ==
    /\ robot_x_pos < 0
    /\ Count("RIGHT") > 0
    /\ Inited

====
